---- MODULE Spec2Model ----
(***************************************************************************)
(* Position lifecycle engine of the trading bot (src/bot.ts, class Bot):   *)
(* admission of concurrent buy() runs through a counting semaphore and the *)
(* sellExecutionCount counter, the buy retry loop with its 10 s deadline,  *)
(* the sell retry loop, and the exit monitor waitForSellSignal() with its  *)
(* per-mint stopLoss map.                                                  *)
(*                                                                         *)
(* The program runs on one cooperative thread: a run of an async method    *)
(* executes without interruption from one await to the next.  One action   *)
(* of the model is one such segment: it starts where an awaited call       *)
(* returns (or throws) and ends at the next await or at the return.        *)
(* Token amounts are raw integer amounts (TokenAmount.raw), percentages    *)
(* are integers, and BN.div is integer division.                           *)
(***************************************************************************)
EXTENDS Integers, Sequences, FiniteSets

\* ---------------------------------------------------------------- bounds
NumBuys == 3          \* buy() runs the caller may start
NumSells == 2         \* sell() runs the caller may start

Buys == 1..NumBuys
Sells == 1..NumSells
Mints == {"m1", "m2"}

\* The mints sell run s may be called for.  The code treats all mints and all
\* runs alike, so the first run is given the first mint, the second takes
\* either, and any further run the first again: every way of spreading the
\* runs over the two mints occurs up to renaming.
MintsOf(s) == IF s = 2 THEN Mints ELSE {"m1"}

\* ------------------------------------------------- configuration (BotConfig)
maxTokensAtTheTime == 2
maxBuyRetries == 3
maxSellRetries == 2
quoteAmount == 100         \* raw amount of the quote token spent per trade
takeProfit == 20           \* percent
stopLossPct == 10          \* percent (config.stopLoss)
filterCheckInterval == 1000
consecutiveMatchCount == 2
BuyDeadlineMs == 10000

\* Durations (ms) one awaited swap() of a buy run may take.
SwapDurations == {5000, 6000}

\* Quotes Liquidity.computeAmountOut may return to the exit monitor, as raw
\* amounts of the quote token.
Amounts == {40, 89, 90, 110, 120, 125}

\* The configurations and workloads explored.  The fields that vary are the
\* ones the code branches on; buys and sells are the runs the caller starts.
\* Buy runs and exit monitors share no state (a buy run reads only the
\* semaphore and sellExecutionCount), so the buy runs are explored beside a
\* sell run without monitoring, and the monitors beside one another.  The
\* last three follow one buy run through a quality gate of four ticks, the
\* exit monitor switched off by a zero interval, and the quality gate
\* switched off by a zero duration.
Configs ==
  { [useSnipeList |-> FALSE, autoBuyDelay |-> 1000, autoSellDelay |-> 0,
     trailingStopLoss |-> FALSE, skipSellingIfLostMoreThan |-> 0,
     priceCheckInterval |-> 1000, priceCheckDuration |-> 0, filterCheckDuration |-> 2000,
     buys |-> Buys, sells |-> {}],
    [useSnipeList |-> TRUE, autoBuyDelay |-> 0, autoSellDelay |-> 0,
     trailingStopLoss |-> FALSE, skipSellingIfLostMoreThan |-> 0,
     priceCheckInterval |-> 1000, priceCheckDuration |-> 0, filterCheckDuration |-> 2000,
     buys |-> Buys, sells |-> {1}],
    [useSnipeList |-> FALSE, autoBuyDelay |-> 0, autoSellDelay |-> 0,
     trailingStopLoss |-> TRUE, skipSellingIfLostMoreThan |-> 50,
     priceCheckInterval |-> 1000, priceCheckDuration |-> 2000, filterCheckDuration |-> 2000,
     buys |-> {}, sells |-> Sells],
    [useSnipeList |-> FALSE, autoBuyDelay |-> 1000, autoSellDelay |-> 1000,
     trailingStopLoss |-> FALSE, skipSellingIfLostMoreThan |-> 0,
     priceCheckInterval |-> 1000, priceCheckDuration |-> 2000, filterCheckDuration |-> 4000,
     buys |-> {1}, sells |-> {1}],
    [useSnipeList |-> FALSE, autoBuyDelay |-> 0, autoSellDelay |-> 0,
     trailingStopLoss |-> TRUE, skipSellingIfLostMoreThan |-> 50,
     priceCheckInterval |-> 0, priceCheckDuration |-> 2000, filterCheckDuration |-> 2000,
     buys |-> {}, sells |-> Sells],
    [useSnipeList |-> FALSE, autoBuyDelay |-> 0, autoSellDelay |-> 0,
     trailingStopLoss |-> FALSE, skipSellingIfLostMoreThan |-> 0,
     priceCheckInterval |-> 1000, priceCheckDuration |-> 0, filterCheckDuration |-> 0,
     buys |-> {1}, sells |-> {}] }

VARIABLES
  config,               \* this.config (read-only after construction) and the workload
  semValue,             \* this.semaphore: permits available
  semQueue,             \* this.semaphore: buy runs suspended in acquire(), oldest first
  sellExecutionCount,   \* this.sellExecutionCount
  stopLoss,             \* this.stopLoss: Map from base mint to the floor
  buy,                  \* per buy() run: position, locals, and what it did so far
  sell,                 \* per sell() run: position, locals, and what it did so far
  entry                 \* one run of waitForBuySignal(): position, locals, answer

vars == <<config, semValue, semQueue, sellExecutionCount, stopLoss, buy, sell, entry>>

\* ------------------------------------------------------------ pure helpers

\* amount.mul(pct).numerator.div(new BN(100))
PercentOf(amount, pct) == (amount * pct) \div 100

\* lines 621-623: takeProfit = quoteAmount + quoteAmount * takeProfit / 100
TakeProfitAmount == quoteAmount + PercentOf(quoteAmount, takeProfit)

\* lines 627-629: the floor a first monitor run of a position stores
InitialStopLoss == quoteAmount - PercentOf(quoteAmount, stopLossPct)

\* lines 656-658: the trailing candidate for a quote
TrailingStopLoss(amountOut) == amountOut - PercentOf(amountOut, stopLossPct)

\* lines 671-675
StopSellingAmount(skip) == PercentOf(quoteAmount, 100 - skip)

\* Map operations on this.stopLoss
MapSet(map, k, v) == [m \in DOMAIN map \cup {k} |-> IF m = k THEN v ELSE map[m]]
MapDelete(map, k) == [m \in DOMAIN map \ {k} |-> map[m]]

\* lines 284-286: the admission check of buy()
AdmissionDenied_StrictlyMore(value, sells) ==
  value <= 0 \/ (maxTokensAtTheTime - value) + sells > maxTokensAtTheTime
AdmissionDenied_IgnoresSells(value, sells) == value <= 0
AdmissionDenied_Never(value, sells) == FALSE
AdmissionDenied(value, sells) ==
  value <= 0 \/ (maxTokensAtTheTime - value) + sells >= maxTokensAtTheTime

\* lines 296, 374-376: the exits of buy() that leave through the try block, and
\* so through its finally ("thrown": an exception no catch clause took)
FinallyRuns_NotOnException(exit) ==
  exit \in {"filtered", "nosignal", "deadline", "bought", "exhausted"}
FinallyRuns_OnlyAfterLoop(exit) == exit \in {"bought", "exhausted", "exception"}
FinallyRuns_NotWhenDeclined(exit) ==
  exit \in {"exception", "deadline", "bought", "exhausted", "thrown"}
FinallyRuns(exit) ==
  exit \in {"exception", "filtered", "nosignal", "deadline", "bought", "exhausted", "thrown"}

\* line 274: the allow-list check; isInList() is consulted only in allow-list mode
SkippedByAllowList_Never(useSnipeList, inList) == FALSE
SkippedByAllowList(useSnipeList, inList) == useSnipeList /\ ~inList

\* line 303: the quality gate is consulted only outside allow-list mode
ConsultsFilter(useSnipeList) == ~useSnipeList

\* lines 306-309 and 314-317: a gate that answered false ends the run
Declined_Never(answer) == FALSE
Declined(answer) == ~answer

\* lines 345-358: a confirmed result ends the retry loop of buy()
BuyConfirmed_Never(result) == FALSE
BuyConfirmed(result) == result = "confirmed"

\* lines 435-480: a confirmed result ends the retry loop of sell()
SellConfirmed_Never(result) == FALSE
SellConfirmed(result) == result = "confirmed"

\* The catch clauses around each await that may throw, innermost first: the
\* attempt's (lines 368, 490), the monitor tick's (line 727) and the run's
\* (lines 372, 494).  filterMatch() has a finally and no catch (lines 589-609).
Catches_QuoteOutsideTick(site) ==
  CASE site \in {"resolve", "filter", "pool", "market"} -> <<"run">>
    [] site \in {"buySwap", "sellSwap", "quote"} -> <<"attempt", "run">>
Catches_FilterOutsideTry(site) ==
  CASE site = "filter" -> <<>>
    [] site \in {"resolve", "pool", "market"} -> <<"run">>
    [] site \in {"buySwap", "sellSwap"} -> <<"attempt", "run">>
    [] site = "quote" -> <<"tick", "attempt", "run">>
Catches(site) ==
  CASE site \in {"resolve", "filter", "pool", "market"} -> <<"run">>
    [] site \in {"buySwap", "sellSwap"} -> <<"attempt", "run">>
    [] site = "quote" -> <<"tick", "attempt", "run">>

\* Where an exception thrown at a site lands: the innermost catch clause, or
\* the caller of buy() or sell() when there is none.
Landing(site) == IF Catches(site) = <<>> THEN "caller" ELSE Head(Catches(site))

\* lines 592-604: matchCount after one evaluation of the filters
NextMatchCount_NoReset(matchCount, shouldBuy) ==
  IF shouldBuy THEN matchCount + 1 ELSE matchCount
NextMatchCount(matchCount, shouldBuy) ==
  IF shouldBuy THEN matchCount + 1 ELSE 0

\* lines 584, 610 and 620, 732: the condition of the do-while loops,
\* timesChecked < timesToCheck with timesToCheck = duration / interval
TicksLeft_Always(timesChecked, interval, duration) == TRUE
TicksLeft(timesChecked, interval, duration) == timesChecked * interval < duration

\* line 323
DeadlineExceeded_Never(elapsed) == FALSE
DeadlineExceeded(elapsed) == elapsed > BuyDeadlineMs

\* line 410
EvaluatesSignal_EveryAttempt(i) == TRUE
EvaluatesSignal(i) == i < 1

\* line 616: the exit monitor is switched off by a zero duration or interval
MonitorDisabled_Never(duration, interval) == FALSE
MonitorDisabled(duration, interval) == duration = 0 \/ interval = 0

\* lines 686, 712, 723 and 734: what waitForSellSignal() answers for the way
\* its loop ended; only the drawdown abort returns false
MonitorReturn_HoldOnTimeout(outcome) == outcome \notin {"ABORTED", "TIMED_OUT"}
MonitorReturn(outcome) == outcome # "ABORTED"

\* lines 670-724: what one monitor tick decides for a quote, given the floor
\* the run holds after the trailing update
TickOutcome_StopLossFirst(amountOut, floor, skip) ==
  IF amountOut < floor THEN "STOP_LOSS"
  ELSE IF skip > 0 /\ amountOut < StopSellingAmount(skip) THEN "ABORTED"
  ELSE IF amountOut > TakeProfitAmount THEN "TAKE_PROFIT"
  ELSE "WAITING"
TickOutcome_Inclusive(amountOut, floor, skip) ==
  IF skip > 0 /\ amountOut < StopSellingAmount(skip) THEN "ABORTED"
  ELSE IF amountOut <= floor THEN "STOP_LOSS"
  ELSE IF amountOut >= TakeProfitAmount THEN "TAKE_PROFIT"
  ELSE "WAITING"
TickOutcome(amountOut, floor, skip) ==
  IF skip > 0 /\ amountOut < StopSellingAmount(skip) THEN "ABORTED"
  ELSE IF amountOut < floor THEN "STOP_LOSS"
  ELSE IF amountOut > TakeProfitAmount THEN "TAKE_PROFIT"
  ELSE "WAITING"

\* ------------------------------------------------------------------- Init

BuyInit ==
  [pc |-> "idle", i |-> 0, elapsed |-> 0, timesChecked |-> 0, matchCount |-> 0,
   evaluations |-> <<>>, acquired |-> 0, released |-> 0, attempts |-> 0, filterCalls |-> 0,
   signalCalls |-> 0, inList |-> "none", filterMatch |-> "none",
   buySignal |-> "none", confirmed |-> 0, exit |-> "none"]

SellInit ==
  [pc |-> "idle", mint |-> "none", i |-> 0, stopLoss |-> 0, timesChecked |-> 0,
   amountOut |-> 0, failedTicks |-> 0, shouldSell |-> FALSE, signalEvals |-> 0,
   attempts |-> 0, monitor |-> "none",
   confirmed |-> 0, exit |-> "none"]

\* No run of waitForBuySignal() is followed tick by tick.
EntryIdle ==
  [pc |-> "idle", feed |-> "none", pos |-> 0, prices |-> <<>>, timesChecked |-> 0,
   result |-> "none", how |-> "none"]

Init ==
  /\ entry = EntryIdle
  /\ config \in Configs
  /\ semValue = maxTokensAtTheTime
  /\ semQueue = <<>>
  /\ sellExecutionCount = 0
  /\ stopLoss = [m \in {} |-> 0]
  /\ buy = [b \in Buys |-> BuyInit]
  /\ sell = [s \in Sells |-> SellInit]

\* -------------------------------------------------------------------- buy

\* A return of buy run b by way `exit`, its record being r at that point.
\* Through the finally block: semaphore.release() adds one permit and hands it
\* to the oldest run suspended in acquire(), if any.
BuyExit(b, exit, r) ==
  LET done == [r EXCEPT !.pc = "done", !.exit = exit, !.i = 0, !.elapsed = 0,
                        !.timesChecked = 0, !.matchCount = 0, !.evaluations = <<>>,
                        !.released = IF FinallyRuns(exit) THEN @ + 1 ELSE @]
  IN /\ UNCHANGED <<entry, config, sellExecutionCount, stopLoss, sell>>
     /\ IF FinallyRuns(exit)
        THEN IF semQueue # <<>> /\ semValue + 1 >= 1
             THEN /\ semValue' = semValue
                  /\ semQueue' = Tail(semQueue)
                  /\ buy' = [buy EXCEPT ![b] = done,
                                        ![Head(semQueue)] =
                                           [@ EXCEPT !.pc = "resolve", !.acquired = @ + 1]]
             ELSE /\ semValue' = semValue + 1
                  /\ buy' = [buy EXCEPT ![b] = done]
                  /\ UNCHANGED semQueue
        ELSE /\ buy' = [buy EXCEPT ![b] = done]
             /\ UNCHANGED <<semValue, semQueue>>

\* lines 284-297: the admission check and semaphore.acquire(), with no await
\* between them; acquire() takes a permit at once when one is free and
\* otherwise suspends the run in the semaphore's queue.
BuyAdmission(b, r) ==
  IF AdmissionDenied(semValue, sellExecutionCount)
  THEN BuyExit(b, "denied", r)
  ELSE /\ UNCHANGED <<entry, config, sellExecutionCount, stopLoss, sell>>
       /\ IF semValue >= 1 /\ semQueue = <<>>
          THEN /\ semValue' = semValue - 1
               /\ buy' = [buy EXCEPT ![b] = [r EXCEPT !.pc = "resolve", !.acquired = @ + 1]]
               /\ UNCHANGED semQueue
          ELSE /\ semQueue' = Append(semQueue, b)
               /\ buy' = [buy EXCEPT ![b] = [r EXCEPT !.pc = "waiting"]]
               /\ UNCHANGED semValue

\* lines 271-282: buy() is called; the allow-list check, then the pre-buy delay
BuyStart(b) ==
  /\ buy[b].pc = "idle"
  /\ b \in config.buys
  /\ \E inList \in BOOLEAN :
       LET r == [buy[b] EXCEPT !.inList = IF ~config.useSnipeList THEN "none"
                                          ELSE IF inList THEN "yes" ELSE "no"]
       IN IF SkippedByAllowList(config.useSnipeList, inList)
          THEN BuyExit(b, "skipped", r)
          ELSE IF config.autoBuyDelay > 0
               THEN /\ buy' = [buy EXCEPT ![b] = [r EXCEPT !.pc = "delay"]]
                    /\ UNCHANGED <<entry, config, semValue, semQueue, sellExecutionCount, stopLoss, sell>>
               ELSE BuyAdmission(b, r)

\* lines 281-294: the delay is over
BuyDelay(b) ==
  /\ buy[b].pc = "delay"
  /\ BuyAdmission(b, buy[b])

\* lines 320-343: the head of the retry loop, up to the await of swap()
BuyLoop(b, r) ==
  IF r.i < maxBuyRetries
  THEN IF DeadlineExceeded(r.elapsed)
       THEN BuyExit(b, "deadline", r)
       ELSE /\ buy' = [buy EXCEPT ![b] = [r EXCEPT !.pc = "swap", !.attempts = @ + 1]]
            /\ UNCHANGED <<entry, config, semValue, semQueue, sellExecutionCount, stopLoss, sell>>
  ELSE BuyExit(b, "exhausted", r)

\* lines 368-376: an await of buy run b at `site` throws: the attempt's catch
\* goes on with the next iteration, the run's catch returns, and an exception
\* no clause takes leaves buy() after the finally
BuyThrows(b, site, r) ==
  CASE Landing(site) = "attempt" -> BuyLoop(b, [r EXCEPT !.i = @ + 1])
    [] Landing(site) = "run" -> BuyExit(b, "exception", r)
    [] Landing(site) = "caller" -> BuyExit(b, "thrown", r)

\* lines 312-317: the run calls waitForBuySignal()
BuyCallSignal(b, r) ==
  /\ buy' = [buy EXCEPT ![b] = [r EXCEPT !.pc = "signal", !.signalCalls = @ + 1]]
  /\ UNCHANGED <<entry, config, semValue, semQueue, sellExecutionCount, stopLoss, sell>>

\* lines 304-312: filterMatch() returns `match` to the run
BuyFilterReturns(b, r, match) ==
  LET answered == [r EXCEPT !.filterMatch = IF match THEN "true" ELSE "false"]
  IN IF Declined(match)
     THEN BuyExit(b, "filtered", answered)
     ELSE BuyCallSignal(b, answered)

\* lines 297-310: market and token account are resolved (or that throws), then
\* filterMatch() runs up to its first await
BuyResolve(b) ==
  /\ buy[b].pc = "resolve"
  /\ \E ok \in BOOLEAN :
       IF ~ok
       THEN BuyThrows(b, "resolve", buy[b])
       ELSE IF ~ConsultsFilter(config.useSnipeList)
            THEN BuyCallSignal(b, buy[b])
            ELSE IF filterCheckInterval = 0 \/ config.filterCheckDuration = 0
                 THEN BuyFilterReturns(b, [buy[b] EXCEPT !.filterCalls = @ + 1], TRUE)
                 ELSE /\ buy' = [buy EXCEPT ![b] = [@ EXCEPT !.pc = "filter", !.filterCalls = @ + 1,
                                                             !.timesChecked = 0, !.matchCount = 0,
                                                             !.evaluations = <<>>]]
                      /\ UNCHANGED <<entry, config, semValue, semQueue, sellExecutionCount, stopLoss, sell>>

\* lines 589-606: filters.execute() returns or throws
BuyFilterTick(b) ==
  /\ buy[b].pc = "filter"
  /\ \E execute \in {"yes", "no", "throws"} :
       LET shouldBuy == execute = "yes"
           r == [buy[b] EXCEPT !.matchCount = NextMatchCount(@, shouldBuy),
                               !.evaluations = Append(@, shouldBuy)]
       IN IF execute = "throws"
          THEN BuyThrows(b, "filter", buy[b])
          ELSE IF shouldBuy /\ consecutiveMatchCount <= r.matchCount
               THEN BuyFilterReturns(b, [r EXCEPT !.timesChecked = @ + 1], TRUE)
               ELSE /\ buy' = [buy EXCEPT ![b] = [r EXCEPT !.pc = "filterSleep"]]
                    /\ UNCHANGED <<entry, config, semValue, semQueue, sellExecutionCount, stopLoss, sell>>

\* lines 606-612 and 306-309: the sleep between two filter ticks is over
BuyFilterSleep(b) ==
  /\ buy[b].pc = "filterSleep"
  /\ IF TicksLeft(buy[b].timesChecked + 1, filterCheckInterval, config.filterCheckDuration)
     THEN /\ buy' = [buy EXCEPT ![b] = [@ EXCEPT !.pc = "filter", !.timesChecked = @ + 1]]
          /\ UNCHANGED <<entry, config, semValue, semQueue, sellExecutionCount, stopLoss, sell>>
     ELSE BuyFilterReturns(b, buy[b], FALSE)

\* lines 312-320: waitForBuySignal() returns; startTime = Date.now()
BuySignal(b) ==
  /\ buy[b].pc = "signal"
  /\ \E buySignal \in BOOLEAN :
       LET r == [buy[b] EXCEPT !.buySignal = IF buySignal THEN "true" ELSE "false",
                               !.evaluations = <<>>]
       IN IF Declined(buySignal)
          THEN BuyExit(b, "nosignal", r)
          ELSE BuyLoop(b, [r EXCEPT !.i = 0, !.elapsed = 0])

\* lines 333-371: swap() returns a result or throws, having taken d ms
BuySwapResult(b) ==
  /\ buy[b].pc = "swap"
  /\ \E result \in {"confirmed", "unconfirmed", "throws"}, d \in SwapDurations :
       LET r == [buy[b] EXCEPT !.elapsed = @ + d,
                               !.confirmed = IF result = "confirmed" THEN @ + 1 ELSE @]
       IN CASE result = "throws" -> BuyThrows(b, "buySwap", r)
            [] result # "throws" /\ BuyConfirmed(result) -> BuyExit(b, "bought", r)
            [] OTHER -> BuyLoop(b, [r EXCEPT !.i = @ + 1])

\* ------------------------------------------------------------------- sell

\* lines 496-498: every return of sell() passes the finally block
SellExit(s, exit, r) ==
  /\ sellExecutionCount' = sellExecutionCount - 1
  /\ sell' = [sell EXCEPT ![s] = [r EXCEPT !.pc = "done", !.exit = exit, !.i = 0,
                                           !.stopLoss = 0, !.timesChecked = 0,
                                           !.amountOut = 0, !.failedTicks = 0]]

\* lines 379-385
SellStart(s) ==
  /\ sell[s].pc = "idle"
  /\ s \in config.sells
  /\ \E m \in MintsOf(s) :
       sell' = [sell EXCEPT ![s] = [@ EXCEPT !.pc = "pool", !.mint = m]]
  /\ sellExecutionCount' = sellExecutionCount + 1
  /\ UNCHANGED <<entry, config, semValue, semQueue, stopLoss, buy>>

\* lines 615-642: waitForSellSignal() up to its first await: the feature
\* switch, then the floor is read from the map or created in it
MonitorEnter(s, r) ==
  LET m == r.mint
      called == [r EXCEPT !.signalEvals = @ + 1]
  IN IF MonitorDisabled(config.priceCheckDuration, config.priceCheckInterval)
     THEN /\ sell' = [sell EXCEPT ![s] = [called EXCEPT !.pc = "signalled", !.shouldSell = TRUE]]
          /\ UNCHANGED <<sellExecutionCount, stopLoss>>
     ELSE /\ stopLoss' = IF m \in DOMAIN stopLoss THEN stopLoss
                         ELSE MapSet(stopLoss, m, InitialStopLoss)
          /\ sell' = [sell EXCEPT ![s] = [called EXCEPT !.pc = "fetch", !.timesChecked = 0,
                                                  !.monitor = "WAITING",
                                                  !.stopLoss = stopLoss'[m]]]
          /\ UNCHANGED sellExecutionCount

\* lines 408-433: the head of the retry loop, up to the next await
SellLoop(s, r) ==
  IF r.i < maxSellRetries
  THEN IF EvaluatesSignal(r.i)
       THEN MonitorEnter(s, r)
       ELSE /\ sell' = [sell EXCEPT ![s] = [r EXCEPT !.pc = "swap", !.attempts = @ + 1]]
            /\ UNCHANGED <<sellExecutionCount, stopLoss>>
  ELSE /\ SellExit(s, "abandoned", r)
       /\ UNCHANGED stopLoss

\* lines 732-734: the loop condition of the monitor after a tick
MonitorNext(s, r) ==
  IF TicksLeft(r.timesChecked, config.priceCheckInterval, config.priceCheckDuration)
  THEN sell' = [sell EXCEPT ![s] = [r EXCEPT !.pc = "fetch", !.amountOut = 0]]
  ELSE sell' = [sell EXCEPT ![s] = [r EXCEPT !.pc = "signalled", !.amountOut = 0,
                                             !.monitor = "TIMED_OUT",
                                             !.shouldSell = MonitorReturn("TIMED_OUT")]]

\* lines 490-498 and 727-731: an await of sell run s at `site` throws: the
\* tick's catch goes on with the next tick, the attempt's catch with the next
\* iteration, the run's catch returns, and an exception no clause takes leaves
\* sell() after the finally
SellThrows(s, site, r) ==
  CASE Landing(site) = "tick" ->
         /\ MonitorNext(s, [r EXCEPT !.timesChecked = @ + 1])
         /\ UNCHANGED <<sellExecutionCount, stopLoss>>
    [] Landing(site) = "attempt" -> SellLoop(s, [r EXCEPT !.i = @ + 1])
    [] Landing(site) = "run" -> SellExit(s, "exception", r) /\ UNCHANGED stopLoss
    [] Landing(site) = "caller" -> SellExit(s, "thrown", r) /\ UNCHANGED stopLoss

\* lines 385-405: the pool lookup returns (or throws); the balance check
SellPool(s) ==
  /\ sell[s].pc = "pool"
  /\ \E poolData \in {"found", "absent", "throws", "zeroBalance"} :
       CASE poolData = "absent" -> SellExit(s, "nopool", sell[s]) /\ UNCHANGED stopLoss
         [] poolData = "throws" -> SellThrows(s, "pool", sell[s])
         [] poolData = "zeroBalance" -> SellExit(s, "zero", sell[s]) /\ UNCHANGED stopLoss
         [] poolData = "found" ->
              /\ sell' = [sell EXCEPT ![s] = [@ EXCEPT !.pc =
                             IF config.autoSellDelay > 0 THEN "delay" ELSE "market"]]
              /\ UNCHANGED <<sellExecutionCount, stopLoss>>
  /\ UNCHANGED <<entry, config, semValue, semQueue, buy>>

\* lines 402-405
SellDelay(s) ==
  /\ sell[s].pc = "delay"
  /\ sell' = [sell EXCEPT ![s] = [@ EXCEPT !.pc = "market"]]
  /\ UNCHANGED <<entry, config, semValue, semQueue, sellExecutionCount, stopLoss, buy>>

\* lines 405-411: the market lookup returns (or throws)
SellMarket(s) ==
  /\ sell[s].pc = "market"
  /\ \E ok \in BOOLEAN :
       IF ~ok
       THEN SellThrows(s, "market", sell[s])
       ELSE SellLoop(s, [sell[s] EXCEPT !.i = 0])
  /\ UNCHANGED <<entry, config, semValue, semQueue, buy>>

\* lines 642-731: the quote arrives (or the fetch throws) and the tick runs up
\* to its sleep, its break or its return
MonitorTick(s) ==
  /\ sell[s].pc = "fetch"
  /\ \E fetched \in BOOLEAN :
       LET m == sell[s].mint
           r == sell[s]
       IN IF ~fetched
          THEN SellThrows(s, "quote", [r EXCEPT !.failedTicks = @ + 1])
          ELSE \E amountOut \in Amounts :
               LET raise == config.trailingStopLoss /\ TrailingStopLoss(amountOut) > r.stopLoss
                   floor == IF raise THEN TrailingStopLoss(amountOut) ELSE r.stopLoss
                   map == IF raise THEN MapSet(stopLoss, m, floor) ELSE stopLoss
                   outcome == TickOutcome(amountOut, floor, config.skipSellingIfLostMoreThan)
               IN /\ UNCHANGED sellExecutionCount
                  /\ IF outcome = "WAITING"
                     THEN /\ stopLoss' = map
                          /\ sell' = [sell EXCEPT ![s] = [r EXCEPT !.pc = "sleep", !.stopLoss = floor,
                                                                   !.amountOut = amountOut,
                                                                   !.failedTicks = 0]]
                     ELSE /\ stopLoss' = MapDelete(map, m)
                          /\ sell' = [sell EXCEPT ![s] =
                                        [r EXCEPT !.pc = "signalled", !.stopLoss = floor,
                                                  !.amountOut = amountOut,
                                                  !.failedTicks = 0,
                                                  !.monitor = outcome,
                                                  !.shouldSell = MonitorReturn(outcome)]]
  /\ UNCHANGED <<entry, config, semValue, semQueue, buy>>

\* lines 726-734: the sleep between two ticks is over
MonitorSleep(s) ==
  /\ sell[s].pc = "sleep"
  /\ MonitorNext(s, [sell[s] EXCEPT !.timesChecked = @ + 1])
  /\ UNCHANGED <<entry, config, semValue, semQueue, sellExecutionCount, stopLoss, buy>>

\* lines 411-433: waitForSellSignal() has returned to sell()
SellSignalled(s) ==
  /\ sell[s].pc = "signalled"
  /\ IF ~sell[s].shouldSell
     THEN SellExit(s, "vetoed", sell[s])
     ELSE /\ sell' = [sell EXCEPT ![s] = [@ EXCEPT !.pc = "swap", !.attempts = @ + 1,
                                                  !.stopLoss = 0, !.amountOut = 0,
                                                  !.timesChecked = 0, !.failedTicks = 0]]
          /\ UNCHANGED sellExecutionCount
  /\ UNCHANGED <<entry, config, semValue, semQueue, stopLoss, buy>>

\* lines 423-493: swap() returns a result or throws
SellSwapResult(s) ==
  /\ sell[s].pc = "swap"
  /\ \E result \in {"confirmed", "unconfirmed", "throws"} :
       LET r == [sell[s] EXCEPT !.confirmed = IF result = "confirmed" THEN @ + 1 ELSE @]
       IN CASE result = "throws" -> SellThrows(s, "sellSwap", r)
            [] result # "throws" /\ SellConfirmed(result) ->
                 SellExit(s, "sold", r) /\ UNCHANGED stopLoss
            [] OTHER -> SellLoop(s, [r EXCEPT !.i = @ + 1])
  /\ UNCHANGED <<entry, config, semValue, semQueue, buy>>

\* ------------------------------------------------------------------- Next

Next ==
  \/ \E b \in Buys : BuyStart(b)
  \/ \E b \in Buys : BuyDelay(b)
  \/ \E b \in Buys : BuyResolve(b)
  \/ \E b \in Buys : BuyFilterTick(b)
  \/ \E b \in Buys : BuyFilterSleep(b)
  \/ \E b \in Buys : BuySignal(b)
  \/ \E b \in Buys : BuySwapResult(b)
  \/ \E s \in Sells : SellStart(s)
  \/ \E s \in Sells : SellPool(s)
  \/ \E s \in Sells : SellDelay(s)
  \/ \E s \in Sells : SellMarket(s)
  \/ \E s \in Sells : MonitorTick(s)
  \/ \E s \in Sells : MonitorSleep(s)
  \/ \E s \in Sells : SellSignalled(s)
  \/ \E s \in Sells : SellSwapResult(s)

Spec == Init /\ [][Next]_vars

\* ------------------------------------------------ waitForBuySignal()
\* One run of waitForBuySignal() followed tick by tick, with the indicators
\* computed from the prices it has gathered.  Prices are integers (the price
\* in millionths); the indicators are computed in the order of the code, with
\* every division an integer division, RS and RSI carried in thousandths.
\* The buy runs of Spec take the answer of waitForBuySignal() as an input
\* (BuySignal); this specification shows how the answer comes about.

shortPeriod == 12
longPeriod == 26
signalPeriod == 9
period == 14
timesToCheck == 300
maxSignalWaitTries == 60
Unit == 1000

\* The price feeds explored: what the pool quotes from one fetch to the next.
Decline16 ==
  <<1000000, 1000000, 990000, 970000, 950000, 930000, 910000, 900000,
    880000, 850000, 830000, 800000, 780000, 750000, 700000, 650000>>
Dip20 ==
  <<1000000, 990000, 970000, 975000, 950000, 930000, 910000, 915000, 880000,
    850000, 830000, 800000, 805000, 750000, 700000, 650000, 655000, 600000,
    560000, 565000>>
Recovery34 ==
  <<223967, 223520, 223967, 223520, 223967, 223520, 223967, 223520, 223967,
    223520, 223967, 223520, 223967, 223520, 223967, 223520, 5697084, 5696678,
    5694772, 5690690, 5683928, 5674060, 5660712, 5643545, 5622246, 5596526,
    5566112, 5530745, 5490180, 5444180, 5392521, 5334986, 5271364, 5201452>>
Feeds ==
  [decline |-> Decline16,
   dip |-> Dip20,
   cross |-> Append(Recovery34, 744618),
   zero |-> Append(Recovery34, 724618)]

RECURSIVE SumTo(_, _)
\* data.slice(0, n).reduce((acc, val) => acc + val, 0)
SumTo(data, n) == IF n = 0 THEN 0 ELSE SumTo(data, n - 1) + data[n]

\* (x - ema) * multiplier + ema, with multiplier = 2 / (n + 1)
Ema(ema, x, n) == ema + ((x - ema) * 2) \div (n + 1)

\* lines 111-155.  The result is the pair {macd, signal}: null when the data
\* are too short; the signal is NaN when macdLine has fewer than signalPeriod
\* entries, the sum at line 139 then reading past its end.
calculateMACDv2(data) ==
  IF Len(data) < longPeriod + signalPeriod - 1
  THEN [null |-> TRUE, nan |-> FALSE, macd |-> 0, signal |-> 0]
  ELSE LET shortEMA[i \in longPeriod..Len(data)] ==
             IF i = longPeriod THEN SumTo(data, shortPeriod) \div shortPeriod
             ELSE Ema(shortEMA[i - 1], data[i], shortPeriod)
           longEMA[i \in longPeriod..Len(data)] ==
             IF i = longPeriod THEN SumTo(data, longPeriod) \div longPeriod
             ELSE Ema(longEMA[i - 1], data[i], longPeriod)
           macdLine == [k \in 1..(Len(data) - longPeriod) |->
                          shortEMA[longPeriod + k] - longEMA[longPeriod + k]]
           signalEMA[k \in signalPeriod..Len(macdLine)] ==
             IF k = signalPeriod THEN SumTo(macdLine, signalPeriod) \div signalPeriod
             ELSE Ema(signalEMA[k - 1], macdLine[k], signalPeriod)
       IN IF Len(macdLine) < signalPeriod
          THEN [null |-> FALSE, nan |-> TRUE, macd |-> macdLine[Len(macdLine)], signal |-> 0]
          ELSE [null |-> FALSE, nan |-> FALSE, macd |-> macdLine[Len(macdLine)],
                signal |-> signalEMA[Len(macdLine)]]

\* lines 158-199.  delta[i] is prices[i + 1] - prices[i] for i < length - 1 and
\* undefined beyond, where it counts as neither gain nor loss in the second
\* loop; with at most `period` prices that loop does not run and cRSI stays 0.
\* The result is cRSI in thousandths, or NaN (0 / 0).
calculateRSIv2(prices) ==
  LET n == Len(prices)
      delta(i) == prices[i + 2] - prices[i + 1]
      gainOf(i) == IF i < n - 1 /\ delta(i) > 0 THEN delta(i) ELSE 0
      lossOf(i) == IF i < n - 1 /\ delta(i) < 0 THEN 0 - delta(i) ELSE 0
      gainSum[i \in 0..period] == IF i = 0 THEN 0 ELSE gainSum[i - 1] + gainOf(i - 1)
      lossSum[i \in 0..period] == IF i = 0 THEN 0 ELSE lossSum[i - 1] + lossOf(i - 1)
      avgGain[i \in (period - 1)..(n - 1)] ==
        IF i = period - 1 THEN gainSum[period] \div period
        ELSE (avgGain[i - 1] * (period - 1) + gainOf(i)) \div period
      avgLoss[i \in (period - 1)..(n - 1)] ==
        IF i = period - 1 THEN lossSum[period] \div period
        ELSE (avgLoss[i - 1] * (period - 1) + lossOf(i)) \div period
  IN IF n <= period
     THEN [nan |-> FALSE, value |-> 0]
     ELSE IF avgLoss[n - 1] = 0
          THEN IF avgGain[n - 1] = 0
               THEN [nan |-> TRUE, value |-> 0]
               ELSE [nan |-> FALSE, value |-> 100 * Unit]
          ELSE LET RS == (avgGain[n - 1] * Unit) \div avgLoss[n - 1]
               IN [nan |-> FALSE, value |-> 100 * Unit - (100 * Unit * Unit) \div (Unit + RS)]

\* line 242: the early exit of a pool without history
NoSignalExit(timesChecked, currentRSI, macd) ==
  /\ timesChecked >= maxSignalWaitTries
  /\ ~currentRSI.nan /\ currentRSI.value = 0
  /\ (macd.null \/ macd.macd = 0)

\* line 247: the buy condition; macd.macd and macd.signal are tested for
\* truthiness, which null, NaN and 0 fail
BuyCondition_RsiOnly(currentRSI, macd) ==
  /\ ~currentRSI.nan /\ currentRSI.value > 0 /\ currentRSI.value < 30 * Unit
BuyCondition(currentRSI, macd) ==
  /\ ~currentRSI.nan /\ currentRSI.value > 0 /\ currentRSI.value < 30 * Unit
  /\ ~macd.null /\ macd.macd # 0
  /\ ~macd.nan /\ macd.signal # 0
  /\ macd.macd > macd.signal

\* lines 263-268: the finally block and the loop condition after a tick that
\* did not return
EntryNextTick(r) ==
  LET counted == [r EXCEPT !.timesChecked = @ + 1]
  IN IF counted.timesChecked < timesToCheck
     THEN entry' = [counted EXCEPT !.pc = "fetch"]
     ELSE entry' = [counted EXCEPT !.pc = "done", !.result = "false", !.how = "exhausted"]

\* lines 214-265: the awaited fetch of a tick returns the next quote of the
\* feed or the last one again, or throws; the tick runs up to its sleep or
\* its return
EntryTick ==
  /\ entry.pc = "fetch"
  /\ \E fetched \in BOOLEAN, moved \in BOOLEAN :
       LET feed == Feeds[entry.feed]
       IN IF ~fetched
          THEN EntryNextTick(entry)
          ELSE /\ IF moved THEN entry.pos < Len(feed) ELSE entry.pos >= 1
               /\ LET pos == IF moved THEN entry.pos + 1 ELSE entry.pos
                      price == feed[pos]
                      prices == IF entry.prices = <<>> \/ price # entry.prices[Len(entry.prices)]
                                THEN Append(entry.prices, price)
                                ELSE entry.prices
                      currentRSI == calculateRSIv2(prices)
                      macd == calculateMACDv2(prices)
                      r == [entry EXCEPT !.pos = pos, !.prices = prices]
                  IN IF NoSignalExit(entry.timesChecked, currentRSI, macd)
                     THEN entry' = [r EXCEPT !.pc = "done", !.result = "false",
                                             !.how = "nohistory", !.timesChecked = @ + 1]
                     ELSE IF BuyCondition(currentRSI, macd)
                     THEN entry' = [r EXCEPT !.pc = "done", !.result = "true",
                                             !.how = "signal", !.timesChecked = @ + 1]
                     ELSE entry' = [r EXCEPT !.pc = "sleep"]
  /\ UNCHANGED <<config, semValue, semQueue, sellExecutionCount, stopLoss, buy, sell>>

\* lines 260-266: the sleep of a tick is over
EntrySleep ==
  /\ entry.pc = "sleep"
  /\ EntryNextTick(entry)
  /\ UNCHANGED <<config, semValue, semQueue, sellExecutionCount, stopLoss, buy, sell>>

\* lines 201-215: waitForBuySignal() has been called for a pool with one of
\* the feeds and is about to fetch; no buy or sell run is followed
EntryInit ==
  /\ entry \in {[EntryIdle EXCEPT !.pc = "fetch", !.feed = f] : f \in DOMAIN Feeds}
  /\ config = CHOOSE c \in Configs : c.useSnipeList
  /\ semValue = maxTokensAtTheTime
  /\ semQueue = <<>>
  /\ sellExecutionCount = 0
  /\ stopLoss = [m \in {} |-> 0]
  /\ buy = [b \in Buys |-> BuyInit]
  /\ sell = [s \in Sells |-> SellInit]

EntryNext ==
  \/ EntryTick
  \/ EntrySleep

EntrySpec == EntryInit /\ [][EntryNext]_vars

\* ---------------------------------------------------------------- fairness

\* The steps that follow an await: the awaited call has returned or thrown
\* and the event loop resumes the run.  The calls of buy() and sell() by the
\* listeners (BuyStart, SellStart) are not among them.
Proceed ==
  \/ \E b \in Buys : BuyDelay(b)
  \/ \E b \in Buys : BuyResolve(b)
  \/ \E b \in Buys : BuyFilterTick(b)
  \/ \E b \in Buys : BuyFilterSleep(b)
  \/ \E b \in Buys : BuySignal(b)
  \/ \E b \in Buys : BuySwapResult(b)
  \/ \E s \in Sells : SellPool(s)
  \/ \E s \in Sells : SellDelay(s)
  \/ \E s \in Sells : SellMarket(s)
  \/ \E s \in Sells : MonitorTick(s)
  \/ \E s \in Sells : MonitorSleep(s)
  \/ \E s \in Sells : SellSignalled(s)
  \/ \E s \in Sells : SellSwapResult(s)
  \/ EntryTick
  \/ EntrySleep

\* Either the runs of buy() and sell() of Spec, or one run of
\* waitForBuySignal() followed tick by tick with no buy or sell run beside it.
FairInit ==
  \/ Init
  \/ /\ entry \in {[EntryIdle EXCEPT !.pc = "fetch", !.feed = f] : f \in DOMAIN Feeds}
     /\ config = [(CHOOSE c \in Configs : c.useSnipeList) EXCEPT !.buys = {}, !.sells = {}]
     /\ semValue = maxTokensAtTheTime
     /\ semQueue = <<>>
     /\ sellExecutionCount = 0
     /\ stopLoss = [m \in {} |-> 0]
     /\ buy = [b \in Buys |-> BuyInit]
     /\ sell = [s \in Sells |-> SellInit]

FairNext == Next \/ EntryNext

\* The runs with every awaited call returning or throwing: a run that can be
\* resumed is resumed.
FairSpec == FairInit /\ [][FairNext]_vars /\ WF_vars(Proceed)

\* ------------------------------------------------------------- properties

\* The buy runs that hold a permit: acquired and not yet released.
PermitHolders == {b \in Buys : buy[b].acquired > buy[b].released}
PermitsHeld == Cardinality(PermitHolders)

\* Buy run b leaves the admission check in this step (it was before the check
\* and is past it, not skipped by the allow-list).
PassesAdmissionCheck(b) ==
  /\ buy[b].pc \in {"idle", "delay"}
  /\ buy'[b].pc \notin {"idle", "delay"}
  /\ buy'[b].exit # "skipped"

\* C1 as stated: in every reachable state the buy runs holding a permit plus
\* sellExecutionCount number at most maxTokensAtTheTime.
C1_AdmittedAtMostCapacity ==
  PermitsHeld + sellExecutionCount <= maxTokensAtTheTime

\* C1 amended: the buy runs holding a permit never number more than
\* maxTokensAtTheTime, and at every step in which a buy run acquires a permit
\* the holders plus sellExecutionCount are at most maxTokensAtTheTime right
\* after it.  sell() is never denied, so later sells may raise the sum.
C1_BuysAdmittedWithinCapacity ==
  /\ [](PermitsHeld <= maxTokensAtTheTime)
  /\ [][\A b \in Buys :
          buy'[b].acquired > buy[b].acquired
            => PermitsHeld' + sellExecutionCount' <= maxTokensAtTheTime]_vars

C1_Witness ==
  \E b, d \in Buys :
    /\ b \in PermitHolders
    /\ buy[d].exit = "denied"
    /\ sellExecutionCount > 0
    /\ semValue > 0

\* C2: a buy run that acquired a permit has released it exactly once when it
\* has returned, by whichever exit, and never more than once before; a run
\* that returned without acquiring (allow-list skip, admission denied) has
\* released nothing.
C2_ReleasedExactlyOnce ==
  \A b \in Buys :
    /\ buy[b].acquired <= 1
    /\ buy[b].released <= buy[b].acquired
    /\ buy[b].pc = "done" => buy[b].released = buy[b].acquired
    /\ buy[b].exit \in {"skipped", "denied"} => buy[b].acquired = 0
    /\ buy[b].exit \in {"filtered", "nosignal", "bought", "exhausted", "deadline", "exception"}
         => buy[b].acquired = 1 /\ buy[b].released = 1

C2_Witness ==
  \E b, d \in Buys :
    /\ buy[b].exit = "deadline" /\ buy[b].released = 1
    /\ buy[d].exit = "exhausted" /\ buy[d].released = 1

\* C3: a buy run at the admission check is denied exactly when no permit is
\* available or (maxTokensAtTheTime - permits) + sellExecutionCount reaches
\* maxTokensAtTheTime; denied, it returns holding nothing, having consulted no
\* gate and submitted nothing, and the semaphore is untouched; otherwise it
\* takes one permit.
C3_DeniedIffSaturated ==
  /\ [][\A b \in Buys :
          PassesAdmissionCheck(b) =>
            IF semValue = 0
               \/ (maxTokensAtTheTime - semValue) + sellExecutionCount >= maxTokensAtTheTime
            THEN /\ buy'[b].pc = "done" /\ buy'[b].exit = "denied"
                 /\ buy'[b].acquired = 0
                 /\ semValue' = semValue
            ELSE /\ buy'[b].acquired = 1 /\ buy'[b].pc = "resolve"
                 /\ semValue' = semValue - 1]_vars
  /\ [](\A b \in Buys :
          buy[b].exit = "denied" =>
            /\ buy[b].pc = "done" /\ buy[b].acquired = 0
            /\ buy[b].filterCalls = 0 /\ buy[b].signalCalls = 0 /\ buy[b].attempts = 0)

C3_Witness ==
  \E b, d \in Buys :
    /\ buy[b].exit = "denied"
    /\ buy[d].acquired = 1 /\ buy[d].pc = "resolve"

\* C4 as stated: a buy run that reaches the admission check when no permit is
\* free suspends in acquire() until a release.
C4_BlocksUntilRelease ==
  [][\A b \in Buys :
       PassesAdmissionCheck(b) /\ semValue = 0 => buy'[b].pc = "waiting"]_vars

\* C4 amended: a buy run that reaches the admission check when no permit is
\* free is checked and skipped: it returns at once without a permit, and no
\* buy run is ever suspended in acquire().
C4_CheckAndSkip ==
  /\ [][\A b \in Buys :
          PassesAdmissionCheck(b) /\ semValue = 0
            => buy'[b].pc = "done" /\ buy'[b].exit = "denied" /\ buy'[b].acquired = 0]_vars
  /\ [](semQueue = <<>> /\ \A b \in Buys : buy[b].pc # "waiting")

C4_Witness ==
  \E b \in Buys :
    /\ buy[b].exit = "denied"
    /\ semValue = 0
    /\ PermitsHeld = maxTokensAtTheTime

\* C5: a sell run that has entered its retry loop has evaluated the exit
\* signal exactly once, however many attempts it has made and however they
\* failed.
C5_SignalEvaluatedOnce ==
  \A s \in Sells :
    /\ sell[s].signalEvals <= 1
    /\ sell[s].pc \in {"fetch", "sleep", "signalled", "swap"} => sell[s].signalEvals = 1
    /\ sell[s].attempts >= 1 => sell[s].signalEvals = 1
    /\ sell[s].exit \in {"sold", "abandoned", "vetoed"} => sell[s].signalEvals = 1

C5_Witness ==
  \E s \in Sells :
    /\ sell[s].attempts = maxSellRetries
    /\ sell[s].exit = "abandoned"
    /\ sell[s].signalEvals = 1

\* Sell run s completes a monitor tick that got a quote in this step: the tick
\* goes to its sleep, or ends the monitor by a trigger.
TickWithQuote(s) ==
  /\ sell[s].pc = "fetch"
  /\ \/ sell'[s].pc = "sleep"
     \/ sell'[s].pc = "signalled" /\ sell'[s].monitor # "TIMED_OUT"

\* The quote of the tick is below the drawdown-abort threshold
\* quoteAmount * (1 - skipSellingIfLostMoreThan%).
BelowAbortThreshold(amount) ==
  /\ config.skipSellingIfLostMoreThan > 0
  /\ 100 * amount < quoteAmount * (100 - config.skipSellingIfLostMoreThan)

\* C6 as stated: with the trailing stop enabled, the floor stored for a mint
\* never decreases from one state to the next while the entry exists.
C6_FloorNeverDecreases ==
  [][config.trailingStopLoss =>
       \A m \in DOMAIN stopLoss \cap DOMAIN stopLoss' : stopLoss'[m] >= stopLoss[m]]_vars

\* C7 as stated: the map holds an entry for a mint only while a sell run of
\* that mint is in progress; with every sell run of the mint returned, the
\* entry is gone.
C7_NoEntryAfterClose ==
  \A m \in DOMAIN stopLoss :
    \E s \in Sells : sell[s].mint = m /\ sell[s].pc \notin {"idle", "done"}

\* C8: a tick that observes a quote below the drawdown-abort threshold ends
\* the monitor ABORTED with the do-not-sell answer and the mint's entry
\* deleted, also when the quote is below the floor; an aborted run submits
\* nothing and returns vetoed.
C8_DrawdownAbortVetoes ==
  /\ [][\A s \in Sells :
          TickWithQuote(s) /\ BelowAbortThreshold(sell'[s].amountOut) =>
            /\ sell'[s].pc = "signalled"
            /\ sell'[s].monitor = "ABORTED"
            /\ ~sell'[s].shouldSell
            /\ sell[s].mint \notin DOMAIN stopLoss']_vars
  /\ [](\A s \in Sells :
          sell[s].monitor = "ABORTED" =>
            /\ sell[s].attempts = 0
            /\ sell[s].pc \in {"signalled", "done"}
            /\ sell[s].pc = "done" => sell[s].exit = "vetoed")

C8_Witness ==
  \E s \in Sells :
    /\ sell[s].pc = "signalled"
    /\ sell[s].monitor = "ABORTED"
    /\ sell[s].amountOut = 40
    /\ sell[s].amountOut < sell[s].stopLoss
    /\ sell[s].mint \notin DOMAIN stopLoss

\* C9: a tick that is not aborted ends the monitor in STOP_LOSS when the quote
\* is strictly below the floor the run holds, else in TAKE_PROFIT when the
\* quote is strictly above quoteAmount * (1 + takeProfit%); both delete the
\* mint's entry and answer sell; otherwise, a quote equal to a threshold
\* included, the tick triggers nothing.  With quoteAmount 100, takeProfit 20
\* and stopLoss 10: 125 gives TAKE_PROFIT, and 89 against the floor 90 gives
\* STOP_LOSS.
C9_StopLossThenTakeProfit ==
  [][\A s \in Sells :
       TickWithQuote(s) /\ ~BelowAbortThreshold(sell'[s].amountOut) =>
         LET amount == sell'[s].amountOut
             floor == sell'[s].stopLoss
         IN /\ IF amount < floor
               THEN /\ sell'[s].monitor = "STOP_LOSS"
                    /\ sell'[s].pc = "signalled" /\ sell'[s].shouldSell
                    /\ sell[s].mint \notin DOMAIN stopLoss'
               ELSE IF 100 * amount > quoteAmount * (100 + takeProfit)
               THEN /\ sell'[s].monitor = "TAKE_PROFIT"
                    /\ sell'[s].pc = "signalled" /\ sell'[s].shouldSell
                    /\ sell[s].mint \notin DOMAIN stopLoss'
               ELSE /\ sell'[s].monitor = "WAITING"
                    /\ sell'[s].pc = "sleep"
            /\ amount = 125 => sell'[s].monitor = "TAKE_PROFIT"
            /\ amount = 89 /\ floor = 90 => sell'[s].monitor = "STOP_LOSS"]_vars

C9_Witness ==
  \E s, t \in Sells :
    /\ sell[s].pc = "signalled" /\ sell[s].monitor = "TAKE_PROFIT" /\ sell[s].amountOut = 125
    /\ sell[t].pc = "signalled" /\ sell[t].monitor = "STOP_LOSS" /\ sell[t].amountOut = 89
    /\ sell[t].stopLoss = 90

\* C10: a buy run has a submission in flight only if at most 10 seconds had
\* elapsed since the retry loop began when the attempt started, and it never
\* makes more than maxBuyRetries attempts.
C10_NoAttemptAfterDeadline ==
  \A b \in Buys :
    /\ buy[b].attempts <= maxBuyRetries
    /\ buy[b].pc = "swap" => buy[b].elapsed <= 10000

C10_Witness ==
  \E b, d \in Buys :
    /\ buy[b].exit = "deadline" /\ buy[b].attempts < maxBuyRetries
    /\ buy[d].pc = "swap" /\ buy[d].elapsed = 10000 /\ buy[d].attempts = maxBuyRetries

\* Buy run b ends a submission attempt in this step without a confirmed
\* result: swap() returned unconfirmed or threw.
BuyAttemptFails(b) ==
  /\ buy[b].pc = "swap"
  /\ buy'[b] # buy[b]
  /\ buy'[b].confirmed = buy[b].confirmed

\* C11: a buy run gets at most one confirmed result, and with it the run has
\* returned "bought" and changes no more; an attempt that ends unconfirmed or
\* throws is followed by the next attempt when fewer than maxBuyRetries were
\* made and the 10 s are not over, and by the return of the run otherwise.
C11_StopsAtFirstConfirmed ==
  /\ [](\A b \in Buys :
          /\ buy[b].confirmed <= 1
          /\ buy[b].confirmed = 1 => buy[b].pc = "done" /\ buy[b].exit = "bought"
          /\ buy[b].exit = "bought" => buy[b].confirmed = 1)
  /\ [][\A b \in Buys : buy[b].pc = "done" => buy'[b] = buy[b]]_vars
  /\ [][\A b \in Buys :
          BuyAttemptFails(b) =>
            IF buy[b].attempts < maxBuyRetries
               /\ \A d \in SwapDurations : buy[b].elapsed + d <= 10000
            THEN buy'[b].pc = "swap" /\ buy'[b].attempts = buy[b].attempts + 1
            ELSE IF buy[b].attempts = maxBuyRetries
            THEN buy'[b].pc = "done" /\ buy'[b].exit = "exhausted"
            ELSE \/ buy'[b].pc = "done" /\ buy'[b].exit = "deadline"
                 \/ /\ buy'[b].pc = "swap" /\ buy'[b].attempts = buy[b].attempts + 1
                    /\ buy'[b].elapsed <= 10000]_vars

C11_Witness ==
  \E b, d \in Buys :
    /\ buy[b].exit = "bought" /\ buy[b].attempts = 2 /\ buy[b].confirmed = 1
    /\ buy[d].pc = "swap" /\ buy[d].attempts = 3 /\ buy[d].confirmed = 0

\* C12: a buy run submits only after the quality gate (outside allow-list
\* mode) and then waitForBuySignal() have each been consulted once and
\* answered true; while a gate is being consulted nothing has been submitted;
\* a run the quality gate declined never consulted waitForBuySignal(), and a
\* run either gate declined has returned with zero attempts.
C12_GateThenSignalThenSubmit ==
  \A b \in Buys :
    /\ buy[b].filterCalls <= 1 /\ buy[b].signalCalls <= 1
    /\ buy[b].attempts > 0 =>
         /\ buy[b].buySignal = "true" /\ buy[b].signalCalls = 1
         /\ ~config.useSnipeList => buy[b].filterMatch = "true" /\ buy[b].filterCalls = 1
    /\ buy[b].signalCalls > 0 /\ ~config.useSnipeList => buy[b].filterMatch = "true"
    /\ buy[b].pc \in {"filter", "filterSleep"} =>
         buy[b].signalCalls = 0 /\ buy[b].attempts = 0
    /\ buy[b].pc = "signal" => buy[b].attempts = 0
    /\ buy[b].filterMatch = "false" =>
         /\ buy[b].pc = "done" /\ buy[b].exit = "filtered"
         /\ buy[b].signalCalls = 0 /\ buy[b].attempts = 0
    /\ buy[b].buySignal = "false" =>
         buy[b].pc = "done" /\ buy[b].exit = "nosignal" /\ buy[b].attempts = 0

C12_Witness ==
  \E b, d, e \in Buys :
    /\ buy[b].filterMatch = "false" /\ buy[b].exit = "filtered"
    /\ buy[d].filterMatch = "true" /\ buy[d].buySignal = "false" /\ buy[d].exit = "nosignal"
    /\ buy[e].filterMatch = "true" /\ buy[e].buySignal = "true" /\ buy[e].attempts = 1

\* C13 as stated: a buy run that a gate declined has never held a permit, and
\* a sell run that returns for a zero balance was not counted in
\* sellExecutionCount, so its return takes nothing from the counter.
C13_PreconditionFailureHoldsNothing ==
  /\ [](\A b \in Buys :
          buy[b].filterMatch = "false" \/ buy[b].buySignal = "false" => buy[b].acquired = 0)
  /\ [][\A s \in Sells :
          sell[s].exit # "zero" /\ sell'[s].exit = "zero"
            => sellExecutionCount' = sellExecutionCount]_vars

\* C13 amended: a precondition failure consumes no retry budget and keeps no
\* admission slot past the return of the run.  A buy run holds one permit
\* while a gate is consulted; declined by a gate it has made no attempt and
\* has released the permit when it has returned.  A sell run is counted in
\* sellExecutionCount from its entry; returning for a zero balance it has
\* evaluated no signal and made no attempt, and the return takes its count
\* back.  A buy run the allow-list skipped never held a permit.
C13_PreconditionFailureKeepsNothing ==
  /\ [](\A b \in Buys :
          /\ buy[b].pc \in {"filter", "filterSleep", "signal"} =>
               buy[b].acquired = 1 /\ buy[b].released = 0 /\ buy[b].attempts = 0
          /\ buy[b].filterMatch = "false" \/ buy[b].buySignal = "false" =>
               /\ buy[b].pc = "done" /\ buy[b].attempts = 0
               /\ buy[b].acquired = 1 /\ buy[b].released = 1
          /\ buy[b].exit = "skipped" => buy[b].acquired = 0 /\ buy[b].attempts = 0)
  /\ [](\A s \in Sells :
          sell[s].exit = "zero" => sell[s].signalEvals = 0 /\ sell[s].attempts = 0)
  /\ [](sellExecutionCount =
          Cardinality({s \in Sells : sell[s].pc \notin {"idle", "done"}}))
  /\ [][\A s \in Sells :
          sell[s].exit # "zero" /\ sell'[s].exit = "zero"
            => sellExecutionCount >= 1 /\ sellExecutionCount' = sellExecutionCount - 1]_vars

C13_Witness ==
  \E b \in Buys, s \in Sells :
    /\ buy[b].exit = "nosignal" /\ buy[b].filterMatch = "true"
    /\ buy[b].acquired = 1 /\ buy[b].released = 1
    /\ sell[s].exit = "zero"
    /\ sellExecutionCount = 0 /\ semValue = maxTokensAtTheTime

\* C14: in allow-list mode a buy run for a mint that is not in the list has
\* returned "skipped" without a permit, a gate or an attempt, and the step
\* that skips it changes nothing else: permits, waiters, sellExecutionCount,
\* the stopLoss map and every other run stay as they were.  In allow-list mode
\* no run consults the quality gate.
C14_UnlistedSkippedEntirely ==
  /\ [](\A b \in Buys :
          /\ buy[b].inList = "no" =>
               /\ buy[b].pc = "done" /\ buy[b].exit = "skipped"
               /\ buy[b].acquired = 0 /\ buy[b].released = 0
               /\ buy[b].filterCalls = 0 /\ buy[b].signalCalls = 0 /\ buy[b].attempts = 0
          /\ buy[b].exit = "skipped" => config.useSnipeList /\ buy[b].inList = "no"
          /\ config.useSnipeList => buy[b].filterCalls = 0 /\ buy[b].filterMatch = "none")
  /\ [][\A b \in Buys :
          buy[b].inList # "no" /\ buy'[b].inList = "no" =>
            /\ semValue' = semValue /\ semQueue' = semQueue
            /\ sellExecutionCount' = sellExecutionCount
            /\ stopLoss' = stopLoss /\ sell' = sell
            /\ \A d \in Buys \ {b} : buy'[d] = buy[d]]_vars

C14_Witness ==
  \E b, d \in Buys :
    /\ buy[b].inList = "no" /\ buy[b].exit = "skipped"
    /\ buy[d].inList = "yes" /\ buy[d].attempts = 1 /\ buy[d].filterCalls = 0
    /\ semValue = maxTokensAtTheTime - 1

\* Sell run s ends a submission attempt in this step without a confirmed
\* result.
SellAttemptFails(s) ==
  /\ sell[s].pc = "swap"
  /\ sell'[s] # sell[s]
  /\ sell'[s].confirmed = sell[s].confirmed

\* C15: a sell run makes at most maxSellRetries attempts and gets at most one
\* confirmed result, with which it has returned "sold" and changes no more; an
\* attempt that ends unconfirmed or throws is followed by the next attempt
\* whenever fewer than maxSellRetries were made, whatever time has passed, and
\* else by the return "abandoned" with nothing further submitted; a run that
\* found a zero balance evaluated no signal and made no attempt.
C15_SellRetriesBounded ==
  /\ [](\A s \in Sells :
          /\ sell[s].attempts <= maxSellRetries
          /\ sell[s].confirmed <= 1
          /\ sell[s].confirmed = 1 => sell[s].pc = "done" /\ sell[s].exit = "sold"
          /\ sell[s].exit = "abandoned" =>
               sell[s].attempts = maxSellRetries /\ sell[s].confirmed = 0
          /\ sell[s].exit = "zero" => sell[s].signalEvals = 0 /\ sell[s].attempts = 0)
  /\ [][\A s \in Sells : sell[s].pc = "done" => sell'[s] = sell[s]]_vars
  /\ [][\A s \in Sells :
          SellAttemptFails(s) =>
            IF sell[s].attempts < maxSellRetries
            THEN sell'[s].pc = "swap" /\ sell'[s].attempts = sell[s].attempts + 1
            ELSE sell'[s].pc = "done" /\ sell'[s].exit = "abandoned"]_vars

C15_Witness ==
  \E s, t \in Sells :
    /\ sell[s].exit = "abandoned" /\ sell[s].attempts = maxSellRetries
    /\ sell[t].exit = "sold" /\ sell[t].attempts = 2 /\ sell[t].confirmed = 1

\* C16: a monitor run that ends because its ticks are used up has made
\* priceCheckDuration / priceCheckInterval ticks and answers sell; the only
\* answer do-not-sell is the one of the drawdown abort; a sell run whose
\* monitor timed out goes on to submit.
C16_ExhaustionSells ==
  \A s \in Sells :
    /\ sell[s].pc = "signalled" /\ sell[s].monitor = "TIMED_OUT" =>
         /\ sell[s].shouldSell
         /\ sell[s].timesChecked * config.priceCheckInterval >= config.priceCheckDuration
         /\ (sell[s].timesChecked - 1) * config.priceCheckInterval < config.priceCheckDuration
    /\ sell[s].pc = "signalled" /\ ~sell[s].shouldSell => sell[s].monitor = "ABORTED"
    /\ sell[s].monitor = "TIMED_OUT" /\ sell[s].pc \in {"swap", "done"} =>
         sell[s].attempts >= 1
    /\ sell[s].exit = "vetoed" => sell[s].monitor = "ABORTED"

C16_Witness ==
  \E s \in Sells :
    /\ sell[s].pc = "signalled" /\ sell[s].monitor = "TIMED_OUT"
    /\ sell[s].shouldSell /\ sell[s].timesChecked = 2

\* C17: no run of buy() or sell() ends by an exception that leaves the
\* method; and a step of one run, a failing one included, leaves every other
\* run's record alone: a step of a buy run changes no sell run, no stopLoss
\* entry and not sellExecutionCount, and the permits only by that run's own
\* acquire or release; a step of a sell run changes no buy run, no permit, no
\* stopLoss entry of another mint, and sellExecutionCount only by that run's
\* own entry or return.
C17_FailuresStayLocal ==
  /\ [](/\ \A b \in Buys : buy[b].exit # "thrown"
        /\ \A s \in Sells : sell[s].exit # "thrown")
  /\ [][\A b \in Buys :
          buy'[b] # buy[b] =>
            /\ \A d \in Buys \ {b} : buy'[d] = buy[d]
            /\ sell' = sell /\ stopLoss' = stopLoss
            /\ sellExecutionCount' = sellExecutionCount
            /\ semValue' = semValue - (buy'[b].acquired - buy[b].acquired)
                                    + (buy'[b].released - buy[b].released)]_vars
  /\ [][\A s \in Sells :
          sell'[s] # sell[s] =>
            /\ \A t \in Sells \ {s} : sell'[t] = sell[t]
            /\ buy' = buy /\ semValue' = semValue /\ semQueue' = semQueue
            /\ \A m \in Mints \ {sell'[s].mint} :
                 /\ (m \in DOMAIN stopLoss') = (m \in DOMAIN stopLoss)
                 /\ m \in DOMAIN stopLoss => stopLoss'[m] = stopLoss[m]
            /\ sellExecutionCount' = sellExecutionCount
                 + (IF sell[s].pc = "idle" THEN 1 ELSE 0)
                 - (IF sell'[s].pc = "done" THEN 1 ELSE 0)]_vars

C17_Witness ==
  \E b, d \in Buys :
    /\ buy[b].exit = "exception" /\ buy[b].filterCalls = 1 /\ buy[b].released = 1
    /\ buy[d].pc = "signal" /\ buy[d].acquired = 1 /\ buy[d].released = 0
    /\ semValue = maxTokensAtTheTime - 1

\* waitForBuySignal() completes a tick that got a quote in this step: the
\* tick goes to its sleep or returns.
EntryQuoteTick ==
  /\ entry.pc = "fetch"
  /\ \/ entry'.pc = "sleep"
     \/ entry'.pc = "done" /\ entry'.how \in {"signal", "nohistory"}

\* waitForBuySignal() completes a tick whose fetch threw in this step.
EntryFailedTick ==
  /\ entry.pc = "fetch"
  /\ entry' # entry
  /\ ~EntryQuoteTick

\* C18: a tick of waitForBuySignal() at which the deduplicated prices number
\* fewer than 34 finds the null pair from calculateMACDv2 and does not answer
\* true, so an answer true is given only with at least 34 prices; in
\* particular the 16 non-increasing quotes 1.00, 1.00, 0.99, 0.97, ... give an
\* RSI of 0 throughout and never the answer true.
C18_NoSignalBelow34Samples ==
  /\ [][EntryQuoteTick /\ Len(entry'.prices) < 34 =>
          /\ calculateMACDv2(entry'.prices).null
          /\ entry'.result # "true"]_vars
  /\ [](entry.result = "true" => Len(entry.prices) >= 34)
  /\ [](entry.feed = "decline" =>
          /\ entry.result # "true"
          /\ Len(entry.prices) < 34
          /\ calculateRSIv2(entry.prices) = [nan |-> FALSE, value |-> 0])

C18_Witness ==
  /\ entry.feed = "dip" /\ entry.pc = "sleep"
  /\ Len(entry.prices) = 20
  /\ calculateRSIv2(entry.prices).value > 0
  /\ calculateRSIv2(entry.prices).value < 30 * 1000
  /\ entry.timesChecked > maxSignalWaitTries

\* The decision rule as the claim words it: 0 < RSI < 30 and MACD > signal,
\* both being non-null (a comparison with NaN is false).
ClaimedBuyCondition(prices) ==
  LET currentRSI == calculateRSIv2(prices)
      macd == calculateMACDv2(prices)
  IN /\ ~currentRSI.nan /\ currentRSI.value > 0 /\ currentRSI.value < 30 * 1000
     /\ ~macd.null /\ ~macd.nan
     /\ macd.macd > macd.signal

\* C19 as stated: a tick that got a quote answers true exactly when
\* 0 < RSI < 30 and MACD > signal hold of the prices gathered, both non-null;
\* a tick whose fetch threw adds one to timesChecked, leaves the prices alone
\* and is followed by the next tick while fewer than 300 ticks were made; and
\* a run that used up its 300 ticks has answered false.
C19_SignalAtFirstQualifyingTick ==
  /\ [][EntryQuoteTick =>
          ((entry'.result = "true") <=> ClaimedBuyCondition(entry'.prices))]_vars
  /\ [][EntryFailedTick =>
          /\ entry'.timesChecked = entry.timesChecked + 1
          /\ entry'.prices = entry.prices
          /\ IF entry.timesChecked + 1 < 300
             THEN entry'.pc = "fetch" /\ entry'.result = "none"
             ELSE entry'.pc = "done" /\ entry'.result = "false"]_vars
  /\ [](/\ entry.timesChecked <= 300
        /\ entry.how = "exhausted" => entry.result = "false" /\ entry.timesChecked = 300)

\* C20 as stated: every write of a stopLoss entry by a monitor tick depends
\* on a read made in the same step: when a tick of sell run s replaces the
\* floor stored for its mint, the floor the run compared the candidate with is
\* the one the map holds at that moment, so the stored floor only rises.
C20_WriteReadsCurrentFloor ==
  [][\A s \in Sells :
       LET m == sell[s].mint
       IN /\ sell[s].pc = "fetch" /\ sell'[s] # sell[s]
          /\ m \in DOMAIN stopLoss /\ m \in DOMAIN stopLoss'
          /\ stopLoss'[m] # stopLoss[m]
          => sell[s].stopLoss = stopLoss[m] /\ stopLoss'[m] > stopLoss[m]]_vars

\* A tick of the exit monitor of sell run s whose fetch threw: the run leaves
\* the await of the fetch otherwise than with a quote.
FailedFetchTick(s) ==
  /\ sell[s].pc = "fetch"
  /\ sell'[s] # sell[s]
  /\ ~TickWithQuote(s)

\* C21: a monitor tick whose quote fetch fails changes neither the stopLoss
\* map nor the floor the run holds, triggers none of TAKE_PROFIT, STOP_LOSS
\* and ABORTED, starts no sell attempt and adds one to timesChecked; the run
\* goes on with the next fetch while timesChecked * priceCheckInterval is
\* below priceCheckDuration and otherwise leaves the monitor timed out.  A run
\* inside the loop is always below that budget, whatever number of its ticks
\* failed.
C21_FailedTickOnlyCounts ==
  /\ [][\A s \in Sells :
          FailedFetchTick(s) =>
            /\ stopLoss' = stopLoss
            /\ sellExecutionCount' = sellExecutionCount
            /\ sell'[s].stopLoss = sell[s].stopLoss
            /\ sell'[s].timesChecked = sell[s].timesChecked + 1
            /\ sell'[s].i = sell[s].i /\ sell'[s].attempts = sell[s].attempts
            /\ IF (sell[s].timesChecked + 1) * config.priceCheckInterval
                     < config.priceCheckDuration
               THEN /\ sell'[s].pc = "fetch" /\ sell'[s].monitor = "WAITING"
                    /\ sell'[s].shouldSell = sell[s].shouldSell
               ELSE /\ sell'[s].pc = "signalled" /\ sell'[s].monitor = "TIMED_OUT"]_vars
  /\ [](\A s \in Sells :
          sell[s].pc \in {"fetch", "sleep"} =>
            /\ sell[s].timesChecked * config.priceCheckInterval < config.priceCheckDuration
            /\ sell[s].failedTicks <= sell[s].timesChecked)

\* Every fetch of a monitor failed, and the monitor has ended with the floor
\* of its mint as it was created.
C21_Witness ==
  \E s \in Sells :
    /\ sell[s].pc = "signalled" /\ sell[s].monitor = "TIMED_OUT"
    /\ sell[s].timesChecked = 2 /\ sell[s].failedTicks = 2
    /\ sell[s].mint \in DOMAIN stopLoss
    /\ stopLoss[sell[s].mint] = InitialStopLoss
    /\ sell[s].stopLoss = InitialStopLoss

\* The exit monitor is switched off in the configuration.
MonitorOff == config.priceCheckDuration = 0 \/ config.priceCheckInterval = 0

\* C22: with priceCheckInterval or priceCheckDuration zero, the step of a sell
\* run that calls the exit monitor gets the answer "sell" in that same step
\* and leaves the stopLoss map as it is; no run is ever waiting for a quote or
\* sleeping between two ticks, none has a monitor outcome or a failed fetch,
\* and the stopLoss map stays empty.
C22_DisabledMonitorSellsAtOnce ==
  /\ [](MonitorOff =>
          /\ DOMAIN stopLoss = {}
          /\ \A s \in Sells :
               /\ sell[s].pc \notin {"fetch", "sleep"}
               /\ sell[s].monitor = "none" /\ sell[s].failedTicks = 0
               /\ sell[s].stopLoss = 0 /\ sell[s].amountOut = 0
               /\ sell[s].pc = "signalled" => sell[s].shouldSell
               /\ sell[s].exit # "vetoed")
  /\ [][\A s \in Sells :
          MonitorOff /\ sell[s].signalEvals = 0 /\ sell'[s].signalEvals = 1 =>
            /\ sell'[s].pc = "signalled" /\ sell'[s].shouldSell
            /\ stopLoss' = stopLoss]_vars

\* A sell run is past the switched-off monitor with priceCheckInterval zero
\* and priceCheckDuration positive.
C22_Witness ==
  \E s \in Sells :
    /\ config.priceCheckInterval = 0 /\ config.priceCheckDuration > 0
    /\ sell[s].pc = "swap" /\ sell[s].signalEvals = 1 /\ sell[s].attempts = 1
    /\ sell[s].monitor = "none"
    /\ DOMAIN stopLoss = {}

\* The evaluations e[j - consecutiveMatchCount + 1] .. e[j] exist and are
\* all positive: tick j completes a run of consecutiveMatchCount positive
\* evaluations with no negative one in between.
RunEndsAt(e, j) ==
  /\ j >= consecutiveMatchCount /\ j <= Len(e)
  /\ \A k \in (j - consecutiveMatchCount + 1)..j : e[k]

\* filterMatch() returns `answer` to buy run b in this step.
FilterAnswers(b, answer) ==
  buy[b].filterMatch = "none" /\ buy'[b].filterMatch = answer

\* What C23 says of a return of filterMatch(): true only at a tick that
\* completes a run, no earlier tick having completed one; false only when
\* filterCheckDuration / filterCheckInterval ticks were made and none of them
\* completed a run.
GateAnswerFollowsStreak(b) ==
  /\ FilterAnswers(b, "true") =>
       LET e == buy'[b].evaluations
       IN /\ RunEndsAt(e, Len(e))
          /\ \A j \in 1..(Len(e) - 1) : ~RunEndsAt(e, j)
  /\ FilterAnswers(b, "false") =>
       LET e == buy[b].evaluations
       IN /\ Len(e) * filterCheckInterval >= config.filterCheckDuration
          /\ (Len(e) - 1) * filterCheckInterval < config.filterCheckDuration
          /\ \A j \in 1..Len(e) : ~RunEndsAt(e, j)

\* C23 as stated: every return of the quality gate check follows the streak
\* rule: true only at a tick that completes a run of consecutiveMatchCount
\* consecutive positive evaluations, false when filterCheckDuration /
\* filterCheckInterval ticks elapsed without such a run.
C23_TrueOnlyAfterStreak ==
  [][\A b \in Buys : GateAnswerFollowsStreak(b)]_vars

\* C23 amended: with filterCheckInterval and filterCheckDuration both
\* non-zero, the quality gate check returns true only at a tick that
\* completes a run of consecutiveMatchCount consecutive positive evaluations
\* (a negative tick resets the streak, so matchCount is the number of
\* positive evaluations since the last negative one), and returns false when
\* filterCheckDuration / filterCheckInterval ticks elapsed without such a
\* run; with either of them zero the check returns true without evaluating
\* the filters at all.
C23_EnabledGateFollowsStreak ==
  /\ [][\A b \in Buys :
          /\ config.filterCheckDuration # 0 /\ filterCheckInterval # 0 =>
               GateAnswerFollowsStreak(b)
          /\ config.filterCheckDuration = 0 \/ filterCheckInterval = 0 =>
               /\ ~FilterAnswers(b, "false")
               /\ buy[b].filterCalls = 0 /\ buy'[b].filterCalls = 1 =>
                    FilterAnswers(b, "true") /\ buy'[b].evaluations = <<>>]_vars
  /\ [](\A b \in Buys :
          buy[b].pc \in {"filter", "filterSleep"} =>
            LET e == buy[b].evaluations
            IN /\ \A j \in 1..Len(e) : ~RunEndsAt(e, j)
               /\ buy[b].matchCount <= Len(e)
               /\ \A k \in 1..Len(e) :
                    (k > Len(e) - buy[b].matchCount) => e[k]
               /\ buy[b].matchCount < Len(e) => ~e[Len(e) - buy[b].matchCount])

\* The gate has answered true at the fourth tick: a positive evaluation, a
\* negative one that reset the streak, then a run of two.
C23_Witness ==
  \E b \in Buys :
    /\ buy[b].pc = "signal" /\ buy[b].filterMatch = "true"
    /\ buy[b].evaluations = <<TRUE, FALSE, TRUE, TRUE>>

\* The buy runs between the return of semaphore.acquire() (line 294) and the
\* finally of line 375, and the sell runs between their entry (line 380) and
\* their return.
BuysInsideTry ==
  {b \in Buys : buy[b].pc \in {"resolve", "filter", "filterSleep", "signal", "swap"}}
SellsRunning == {s \in Sells : sell[s].pc \notin {"idle", "done"}}

\* C24: in every reachable state the available permits lie in
\* 0..maxTokensAtTheTime and equal maxTokensAtTheTime minus the number of buy
\* runs between their acquire and their release, and sellExecutionCount is
\* non-negative and equals the number of sell runs that have started and not
\* yet returned.
C24_CountersExact ==
  /\ semValue \in 0..maxTokensAtTheTime
  /\ semValue = maxTokensAtTheTime - Cardinality(BuysInsideTry)
  /\ sellExecutionCount >= 0
  /\ sellExecutionCount = Cardinality(SellsRunning)
  /\ \A b \in Buys :
       buy[b].acquired - buy[b].released = IF b \in BuysInsideTry THEN 1 ELSE 0

\* Both counters are away from their initial values at once: every permit is
\* taken by a buy run inside its try block, one of which has already come
\* back from an earlier state, and a sell run is under way.
C24_Witness ==
  /\ semValue = 0 /\ Cardinality(BuysInsideTry) = maxTokensAtTheTime
  /\ sellExecutionCount = 1 /\ Cardinality(SellsRunning) = 1
  /\ \E b \in Buys : buy[b].pc = "done" /\ buy[b].released = 1

\* All runs that were started have returned.
Quiescent ==
  /\ \A b \in Buys : buy[b].pc \in {"idle", "done"}
  /\ \A s \in Sells : sell[s].pc \in {"idle", "done"}
  /\ entry.pc \in {"idle", "done"}

\* C25: with every awaited call returning or throwing, every buy run and
\* every sell run that was started returns, and so does a run of
\* waitForBuySignal(): from some point on every run is idle or done, so none
\* stays suspended in acquire() or inside a loop, and a run that has returned
\* stays so.  The loop counters never pass their
\* bounds.  Whenever all started runs have returned, all maxTokensAtTheTime
\* permits are available, no run is queued at the semaphore and
\* sellExecutionCount is zero.
C25_RunsTerminateAndRestore ==
  /\ <>[]Quiescent
  /\ [][/\ \A b \in Buys : buy[b].pc = "done" => buy'[b] = buy[b]
        /\ \A s \in Sells : sell[s].pc = "done" => sell'[s] = sell[s]
        /\ entry.pc = "done" => entry' = entry]_vars
  /\ [](Quiescent =>
          semValue = maxTokensAtTheTime /\ semQueue = <<>> /\ sellExecutionCount = 0)
  /\ [](/\ \A b \in Buys :
             /\ buy[b].i <= maxBuyRetries
             /\ buy[b].timesChecked * filterCheckInterval <= config.filterCheckDuration
        /\ \A s \in Sells :
             /\ sell[s].i <= maxSellRetries
             /\ sell[s].timesChecked * config.priceCheckInterval
                  <= config.priceCheckDuration
        /\ entry.timesChecked <= timesToCheck)

\* Runs of both kinds were started, went through their loops to the last
\* iteration and have all returned, and the counters are back.
C25_Witness ==
  /\ Quiescent
  /\ \E b \in Buys : buy[b].exit = "exhausted" /\ buy[b].attempts = maxBuyRetries
  /\ \E s \in Sells : sell[s].exit = "abandoned" /\ sell[s].monitor = "TIMED_OUT"
  /\ semValue = maxTokensAtTheTime /\ sellExecutionCount = 0

====
